---- MODULE Spec2Model ----
(***************************************************************************)
(* satmap: fetch two-line element catalogs, compute satellite positions    *)
(* for an observer located by IP address, and draw a polar or a ground     *)
(* track chart.  The model follows src/satmap/utils.py and                 *)
(* src/satmap/plot_sats.py.                                                *)
(*                                                                         *)
(* Strings the code inspects character by character (catalog URLs, group   *)
(* keys) are sequences of one-character strings.  Python indexes from 0,   *)
(* TLA+ sequences from 1; line numbers kept as data are Python's.          *)
(* Angles are integers counted in eighths of a turn (pi/4 rad).            *)
(***************************************************************************)
EXTENDS Integers, Sequences, FiniteSets, TLC

VARIABLES pc, clock, obs_time_default, args, data, latlon, observer,
          observer_call, tle_files, url_index, lines, sat_groups,
          sat_groups_in, compute_log, fig, prev_fig, output, raised_at, trace

vars == <<pc, clock, obs_time_default, args, data, latlon, observer,
          observer_call, tle_files, url_index, lines, sat_groups,
          sat_groups_in, compute_log, fig, prev_fig, output, raised_at, trace>>

(* ---------------------------- bounds ---------------------------------- *)
MaxClock == 1
MaxLines == 7
MaxLinesMain == 3
MaxUrls == 2
MaxUrlLen == 4
MaxPrefixLen == 1
MaxGroups == 2

None == "none"
NoTime == -1

(* ---------------------------- strings --------------------------------- *)
LowerCase == <<"a","b","c","d","e","f","g","h","i","j","k","l","m",
               "n","o","p","q","r","s","t","u","v","w","x","y","z">>
UpperCase == <<"A","B","C","D","E","F","G","H","I","J","K","L","M",
               "N","O","P","Q","R","S","T","U","V","W","X","Y","Z">>

\* str.upper() on one character
UpperChar(c) ==
    IF \E i \in 1..Len(LowerCase) : LowerCase[i] = c
    THEN UpperCase[CHOOSE i \in 1..Len(LowerCase) : LowerCase[i] = c]
    ELSE c

\* str.upper()
Upper(s) == [i \in 1..Len(s) |-> UpperChar(s[i])]

\* str.rfind(c) + 1: the 1-based position of the last c in s, 0 when absent
RFind(s, c) ==
    IF \E i \in 1..Len(s) : s[i] = c
    THEN CHOOSE i \in 1..Len(s) : s[i] = c /\ \A j \in (i+1)..Len(s) : s[j] # c
    ELSE 0

BasenameCutFirst(p) ==
    IF \E i \in 1..Len(p) : p[i] = "/"
    THEN SubSeq(p, (CHOOSE i \in 1..Len(p) :
                       p[i] = "/" /\ \A j \in 1..(i-1) : p[j] # "/") + 1, Len(p))
    ELSE p

\* os.path.basename(p): what follows the last "/"
Basename(p) == SubSeq(p, RFind(p, "/") + 1, Len(p))

\* os.path.splitext(p): split at the last "." that comes after the last "/"
\* and has a character other than "." between that "/" and itself
Splitext(p) ==
    LET sepIndex == RFind(p, "/")
        dotIndex == RFind(p, ".")
    IN  IF /\ dotIndex > sepIndex
           /\ \E k \in (sepIndex+1)..(dotIndex-1) : p[k] # "."
        THEN <<SubSeq(p, 1, dotIndex-1), SubSeq(p, dotIndex, Len(p))>>
        ELSE <<p, <<>> >>

\* sat_group = os.path.splitext(os.path.basename(tle_file))[0].upper()
GroupKey(tle_file) == Upper(Splitext(Basename(tle_file))[1])

Celestrak ==
    <<"h","t","t","p","s",":","/","/","w","w","w",".","c","e","l","e","s",
      "t","r","a","k",".","c","o","m","/","N","O","R","A","D","/","e","l",
      "e","m","e","n","t","s","/">>

TLE_FILES ==
    << Celestrak \o <<"g","p","s","-","o","p","s",".","t","x","t">>,
       Celestrak \o <<"g","l","o","-","o","p","s",".","t","x","t">>,
       Celestrak \o <<"g","a","l","i","l","e","o",".","t","x","t">>,
       Celestrak \o <<"b","e","i","d","o","u",".","t","x","t">>,
       Celestrak \o <<"s","b","a","s",".","t","x","t">> >>

(* ------------------------ catalogs and records ------------------------- *)
\* the body urlopen(tle_file).read().decode().splitlines() of the fetch
\* number file: n lines, each knowing its Python line number; line bad
\* (1-based, 0 for none) is not a well-formed element-set line
Response(file, n, bad) ==
    [i \in 1..n |-> [file |-> file, no |-> i - 1, ok |-> (i # bad)]]

\* an ephem.Observer() before its fields are assigned
NoObserver == [lat |-> <<>>, lon |-> <<>>, date |-> NoTime]

\* the position fields of a body on which compute was never called
NoPosition == [alt |-> 0, az |-> 0, sublat |-> 0, sublong |-> 0]

\* ephem.readtle(name, line1, line2) raises on a malformed element set
ReadtleRaises(name, line1, line2) == ~(name.ok /\ line1.ok /\ line2.ok)

\* ephem.readtle(name, line1, line2): a body with no position computed yet
Readtle(name, line1, line2) ==
    [name |-> name, line1 |-> line1, line2 |-> line2,
     n_computed |-> 0, pos |-> NoPosition, obs |-> NoObserver]

RECURSIVE ReadSatsSliding(_, _, _)
ReadSatsSliding(ls, ind_line, sats) ==
    IF ind_line >= Len(ls) THEN [raised |-> FALSE, sats |-> sats]
    ELSE IF ind_line >= 2
         THEN IF ReadtleRaises(ls[ind_line-1], ls[ind_line], ls[ind_line+1])
              THEN [raised |-> TRUE, sats |-> sats]
              ELSE ReadSatsSliding(ls, ind_line + 1,
                       Append(sats, Readtle(ls[ind_line-1], ls[ind_line],
                                            ls[ind_line+1])))
         ELSE ReadSatsSliding(ls, ind_line + 1, sats)

\* the loop "for ind_line, line in enumerate(lines)" from ind_line on:
\* ls[ind_line+1] is Python's lines[ind_line]
RECURSIVE ReadSats(_, _, _)
ReadSats(ls, ind_line, sats) ==
    IF ind_line >= Len(ls) THEN [raised |-> FALSE, sats |-> sats]
    ELSE IF ind_line % 3 = 2
         THEN IF ReadtleRaises(ls[ind_line-1], ls[ind_line], ls[ind_line+1])
              THEN [raised |-> TRUE, sats |-> sats]
              ELSE ReadSats(ls, ind_line + 1,
                       Append(sats, Readtle(ls[ind_line-1], ls[ind_line],
                                            ls[ind_line+1])))
         ELSE ReadSats(ls, ind_line + 1, sats)

HasKey(d, k) == \E i \in 1..Len(d) : d[i].key = k

\* d[k] = v on a dict: a new key is appended in insertion order, an existing
\* key keeps its place and has its value replaced
DictSet(d, k, v) ==
    IF HasKey(d, k)
    THEN [i \in 1..Len(d) |-> IF d[i].key = k THEN [key |-> k, sats |-> v]
                                             ELSE d[i]]
    ELSE Append(d, [key |-> k, sats |-> v])

(* --------------------------- read_tle_files --------------------------- *)
\* one iteration of "for tle_file in tle_files" that completes
read_tle_file(maxn) ==
    /\ pc = "read_tle_files"
    /\ url_index <= Len(tle_files)
    /\ \E n \in 0..maxn, bad \in 0..maxn :
         LET ls == Response(url_index, n, bad)
             r  == ReadSats(ls, 0, <<>>)
         IN  /\ bad <= n
             /\ ~r.raised
             /\ lines' = ls
             /\ sat_groups' = DictSet(sat_groups, GroupKey(tle_files[url_index]),
                                      r.sats)
    /\ url_index' = url_index + 1
    /\ UNCHANGED <<pc, clock, obs_time_default, args, data, latlon, observer,
                   observer_call, tle_files, sat_groups_in, compute_log, fig,
                   prev_fig, output, raised_at, trace>>

\* urlopen(tle_file) raises: the exception leaves read_tle_files
read_tle_file_urlopen_raises ==
    /\ pc = "read_tle_files"
    /\ url_index <= Len(tle_files)
    /\ pc' = "raised"
    /\ raised_at' = "urlopen"
    /\ UNCHANGED <<clock, obs_time_default, args, data, latlon, observer,
                   observer_call, tle_files, url_index, lines, sat_groups,
                   sat_groups_in, compute_log, fig, prev_fig, output, trace>>

\* ephem.readtle raises on one of the triplets of this catalog
read_tle_file_readtle_raises(maxn) ==
    /\ pc = "read_tle_files"
    /\ url_index <= Len(tle_files)
    /\ \E n \in 0..maxn, bad \in 0..maxn :
         LET ls == Response(url_index, n, bad)
         IN  /\ bad <= n
             /\ ReadSats(ls, 0, <<>>).raised
             /\ lines' = ls
    /\ pc' = "raised"
    /\ raised_at' = "readtle"
    /\ UNCHANGED <<clock, obs_time_default, args, data, latlon, observer,
                   observer_call, tle_files, url_index, sat_groups,
                   sat_groups_in, compute_log, fig, prev_fig, output, trace>>

\* "return sat_groups": the catalog body of the last iteration goes out of
\* scope and the caller goes on with the mapping
read_tle_files_return ==
    /\ pc = "read_tle_files"
    /\ url_index > Len(tle_files)
    /\ pc' = "compute_sat_positions"
    /\ lines' = <<>>
    /\ sat_groups_in' = sat_groups
    /\ trace' = Append(trace, "read_tle_files")
    /\ UNCHANGED <<clock, obs_time_default, args, data, latlon, observer,
                   observer_call, tle_files, url_index, sat_groups,
                   compute_log, fig, prev_fig, output, raised_at>>

(* ------------------- location, observer, arguments -------------------- *)
\* str.split(sep), scanning from character i with the current part cur
RECURSIVE SplitFrom(_, _, _, _)
SplitFrom(s, sep, i, cur) ==
    IF i > Len(s) THEN <<cur>>
    ELSE IF s[i] = sep THEN <<cur>> \o SplitFrom(s, sep, i + 1, <<>>)
         ELSE SplitFrom(s, sep, i + 1, Append(cur, s[i]))

Split(s, sep) == SplitFrom(s, sep, 1, <<>>)

\* "loc" values of the geolocation answer; <<"absent">>: the key is missing
LocAbsent == <<"absent">>
LocInputs == { <<"4", ",", "7">>, <<"4">>, <<"4", ",", "7", ",", "1">>,
               LocAbsent }

PlotTypes == {"polar_azel", "ground_track"}

\* the system clock moves on
Tick ==
    /\ clock < MaxClock
    /\ clock' = clock + 1
    /\ UNCHANGED <<pc, obs_time_default, args, data, latlon, observer,
                   observer_call, tle_files, url_index, lines, sat_groups,
                   sat_groups_in, compute_log, fig, prev_fig, output,
                   raised_at, trace>>

\* "from satmap import utils": the def statements of get_observer and
\* plot_ground_tracks evaluate their default obs_time=dt.datetime.utcnow()
import_utils ==
    /\ pc = "import"
    /\ obs_time_default' = [get_observer |-> clock, plot_ground_tracks |-> clock]
    /\ pc' = "parse_args"
    /\ UNCHANGED <<clock, args, data, latlon, observer, observer_call,
                   tle_files, url_index, lines, sat_groups, sat_groups_in,
                   compute_log, fig, prev_fig, output, raised_at, trace>>

\* args = parse_args(); start_time = satmap.script_setup(...)
parse_args ==
    /\ pc = "parse_args"
    /\ \E t \in PlotTypes, f \in {None, "out.png"} :
         args' = [plot_type |-> t, figure |-> f]
    /\ pc' = "get_location_data"
    /\ UNCHANGED <<clock, obs_time_default, data, latlon, observer,
                   observer_call, tle_files, url_index, lines, sat_groups,
                   sat_groups_in, compute_log, fig, prev_fig, output,
                   raised_at, trace>>

\* data = utils.get_location_data()
get_location_data ==
    /\ pc = "get_location_data"
    /\ \E loc \in LocInputs :
         data' = [city |-> "city", region |-> "region", loc |-> loc]
    /\ pc' = "get_current_latlon"
    /\ trace' = Append(trace, "get_location_data")
    /\ UNCHANGED <<clock, obs_time_default, args, latlon, observer,
                   observer_call, tle_files, url_index, lines, sat_groups,
                   sat_groups_in, compute_log, fig, prev_fig, output, raised_at>>

\* urlopen, json.load or data["city"] raises
get_location_data_raises ==
    /\ pc = "get_location_data"
    /\ pc' = "raised"
    /\ raised_at' = "get_location_data"
    /\ UNCHANGED <<clock, obs_time_default, args, data, latlon, observer,
                   observer_call, tle_files, url_index, lines, sat_groups,
                   sat_groups_in, compute_log, fig, prev_fig, output, trace>>

\* lat, lon = data["loc"].split(",") unpacks exactly two parts
LatLonRaises(d) == d.loc = LocAbsent \/ Len(Split(d.loc, ",")) # 2

\* lat, lon = utils.get_current_latlon(data)
get_current_latlon ==
    /\ pc = "get_current_latlon"
    /\ ~LatLonRaises(data)
    /\ latlon' = <<Split(data.loc, ",")[1], Split(data.loc, ",")[2]>>
    /\ pc' = "get_observer"
    /\ UNCHANGED <<clock, obs_time_default, args, data, observer,
                   observer_call, tle_files, url_index, lines, sat_groups,
                   sat_groups_in, compute_log, fig, prev_fig, output,
                   raised_at, trace>>

get_current_latlon_raises ==
    /\ pc = "get_current_latlon"
    /\ LatLonRaises(data)
    /\ pc' = "raised"
    /\ raised_at' = "get_current_latlon"
    /\ UNCHANGED <<clock, obs_time_default, args, data, latlon, observer,
                   observer_call, tle_files, url_index, lines, sat_groups,
                   sat_groups_in, compute_log, fig, prev_fig, output, trace>>

\* get_observer(lat, lon) with obs_time omitted: the parameter takes the
\* value its default expression had when the def statement ran
ObserverDefaulted(lat, lon, default, now) ==
    [lat |-> lat, lon |-> lon, date |-> default]

\* observer = utils.get_observer(lat, lon); the mapping of read_tle_files()
\* starts empty and the default TLE_FILES is iterated from its first URL
get_observer ==
    /\ pc = "get_observer"
    /\ observer' = ObserverDefaulted(latlon[1], latlon[2],
                                     obs_time_default.get_observer, clock)
    /\ observer_call' = [at |-> clock, defaulted |-> TRUE]
    /\ tle_files' = TLE_FILES
    /\ url_index' = 1
    /\ sat_groups' = <<>>
    /\ pc' = "read_tle_files"
    /\ trace' = Append(trace, "get_observer")
    /\ UNCHANGED <<clock, obs_time_default, args, data, latlon, lines,
                   sat_groups_in, compute_log, fig, prev_fig, output, raised_at>>

(* ------------------------ compute_sat_positions ------------------------ *)
\* what sat.compute(observer) can leave in a body: altitude, azimuth,
\* sub-latitude and sub-longitude, in units of pi/4 rad
Positions ==
    { [alt |-> -1, az |-> 1, sublat |-> -1, sublong |-> 2],
      [alt |->  0, az |-> 3, sublat |->  0, sublong |-> -3],
      [alt |->  1, az |-> 5, sublat |->  1, sublong |-> 0] }

\* sat.compute(observer) mutates the body in place
Compute(sat, obs, p) ==
    [sat EXCEPT !.n_computed = @ + 1, !.pos = p, !.obs = obs]

RECURSIVE VisitOrderSkipFirst(_, _)
VisitOrderSkipFirst(groups, g) ==
    IF g > Len(groups) THEN <<>>
    ELSE [j \in 1..(Len(groups[g].sats) - 1) |-> <<g, j + 1>>]
         \o VisitOrderSkipFirst(groups, g + 1)

\* the records in the order "for sat_group in sat_groups.values():
\* for sat in sat_group" reaches them, from group g on, as <<group, record>>
RECURSIVE VisitOrder(_, _)
VisitOrder(groups, g) ==
    IF g > Len(groups) THEN <<>>
    ELSE [j \in 1..Len(groups[g].sats) |-> <<g, j>>] \o VisitOrder(groups, g + 1)

\* one sat.compute(observer) of the double loop
compute_sat ==
    /\ pc = "compute_sat_positions"
    /\ Len(compute_log) < Len(VisitOrder(sat_groups, 1))
    /\ LET at == VisitOrder(sat_groups, 1)[Len(compute_log) + 1]
       IN  /\ \E p \in Positions :
                sat_groups' = [sat_groups EXCEPT ![at[1]].sats[at[2]] =
                                                    Compute(@, observer, p)]
           /\ compute_log' = Append(compute_log, at)
    /\ UNCHANGED <<pc, clock, obs_time_default, args, data, latlon, observer,
                   observer_call, tle_files, url_index, lines, sat_groups_in,
                   fig, prev_fig, output, raised_at, trace>>

compute_sat_skips ==
    /\ pc = "compute_sat_positions"
    /\ Len(compute_log) < Len(VisitOrder(sat_groups, 1))
    /\ compute_log' = Append(compute_log,
                             VisitOrder(sat_groups, 1)[Len(compute_log) + 1])
    /\ UNCHANGED <<pc, clock, obs_time_default, args, data, latlon, observer,
                   observer_call, tle_files, url_index, lines, sat_groups,
                   sat_groups_in, fig, prev_fig, output, raised_at, trace>>

\* sat.compute(observer) raises on a degenerate element set
compute_sat_raises ==
    /\ pc = "compute_sat_positions"
    /\ Len(compute_log) < Len(VisitOrder(sat_groups, 1))
    /\ pc' = "raised"
    /\ raised_at' = "compute"
    /\ UNCHANGED <<clock, obs_time_default, args, data, latlon, observer,
                   observer_call, tle_files, url_index, lines, sat_groups,
                   sat_groups_in, compute_log, fig, prev_fig, output, trace>>

\* "return sat_groups" once both loops are exhausted
compute_sat_positions_return ==
    /\ pc = "compute_sat_positions"
    /\ Len(compute_log) = Len(VisitOrder(sat_groups, 1))
    /\ pc' = "render"
    /\ trace' = Append(trace, "compute_sat_positions")
    /\ UNCHANGED <<clock, obs_time_default, args, data, latlon, observer,
                   observer_call, tle_files, url_index, lines, sat_groups,
                   sat_groups_in, compute_log, fig, prev_fig, output, raised_at>>

(* ------------------------------ renderers ------------------------------ *)
\* np.rad2deg on an angle counted in units of pi/4 rad
Rad2Deg(x) == 45 * x

\* index into the 256-entry lookup table of cm.nipy_spectral for the sample
\* np.linspace(0, 1, n)[i]: int(x * 256), with 256 itself taken as 255
LutIndex(i, n) ==
    IF n = 1 THEN 0
    ELSE LET k == (256 * i) \div (n - 1) IN IF k >= 256 THEN 255 ELSE k

\* colors = cm.nipy_spectral(np.linspace(0, 1, len(sat_groups))), indexed
\* from 1; a color is named by its place in the lookup table
Colors(n) == [i \in 1..n |-> LutIndex(i - 1, n)]

VisibleSatsFromHorizon(sat_group) ==
    SelectSeq(sat_group, LAMBDA sat : sat.pos.alt >= 0)

\* visible_sats: the satellites of the group with sat.alt > 0
VisibleSats(sat_group) == SelectSeq(sat_group, LAMBDA sat : sat.pos.alt > 0)

PolarColorByVisible(groups, ind_group) ==
    Colors(Len(SelectSeq(groups, LAMBDA e : VisibleSats(e.sats) # <<>>)) + 1)
        [Len(SelectSeq(SubSeq(groups, 1, ind_group),
                       LAMBDA e : VisibleSats(e.sats) # <<>>)) + 1]

\* colors[ind_group] in plot_polar_azel
PolarColor(groups, ind_group) == Colors(Len(groups))[ind_group]

\* colors[ind_group] in plot_ground_tracks
GroundColor(groups, ind_group) == Colors(Len(groups))[ind_group]

\* the ax.scatter call of one group
PolarScatter(groups, ind_group) ==
    LET visible_sats == VisibleSats(groups[ind_group].sats)
    IN  [x |-> [i \in 1..Len(visible_sats) |-> visible_sats[i].pos.az],
         y |-> [i \in 1..Len(visible_sats) |->
                    90 - Rad2Deg(visible_sats[i].pos.alt)],
         color |-> PolarColor(groups, ind_group),
         label |-> None]

\* the ax.annotate calls of one group
PolarAnnotations(groups, ind_group) ==
    LET visible_sats == VisibleSats(groups[ind_group].sats)
    IN  [i \in 1..Len(visible_sats) |->
            [text |-> visible_sats[i].name,
             xy |-> <<visible_sats[i].pos.az,
                      90 - Rad2Deg(visible_sats[i].pos.alt)>>,
             color |-> PolarColor(groups, ind_group)]]

RECURSIVE AllPolarAnnotations(_, _)
AllPolarAnnotations(groups, g) ==
    IF g > Len(groups) THEN <<>>
    ELSE PolarAnnotations(groups, g) \o AllPolarAnnotations(groups, g + 1)

\* plot_polar_azel(sat_groups): the figure as the calls made on its axes
PlotPolarAzel(groups) ==
    [kind |-> "polar_azel",
     scatters |-> [g \in 1..Len(groups) |-> PolarScatter(groups, g)],
     annotations |-> AllPolarAnnotations(groups, 1),
     title |-> NoTime]

\* x, y = m(lons, lats) of the Miller projection, in map units per degree
\* from the lower left corner (the projection's y is monotone in lat and is
\* taken linear here)
Miller(lon, lat) == <<111 * (lon + 180), 111 * (lat + 90)>>

GroundScatterVisible(groups, ind_group) ==
    LET sat_group == VisibleSats(groups[ind_group].sats)
    IN  [x |-> [i \in 1..Len(sat_group) |->
                    Miller(Rad2Deg(sat_group[i].pos.sublong),
                           Rad2Deg(sat_group[i].pos.sublat))[1]],
         y |-> [i \in 1..Len(sat_group) |->
                    Miller(Rad2Deg(sat_group[i].pos.sublong),
                           Rad2Deg(sat_group[i].pos.sublat))[2]],
         color |-> GroundColor(groups, ind_group),
         label |-> groups[ind_group].key]

\* the m.scatter call of one group
GroundScatter(groups, ind_group) ==
    LET sat_group == groups[ind_group].sats
    IN  [x |-> [i \in 1..Len(sat_group) |->
                    Miller(Rad2Deg(sat_group[i].pos.sublong),
                           Rad2Deg(sat_group[i].pos.sublat))[1]],
         y |-> [i \in 1..Len(sat_group) |->
                    Miller(Rad2Deg(sat_group[i].pos.sublong),
                           Rad2Deg(sat_group[i].pos.sublat))[2]],
         color |-> GroundColor(groups, ind_group),
         label |-> groups[ind_group].key]

\* plot_ground_tracks(sat_groups, obs_time)
PlotGroundTracks(groups, obs_time) ==
    [kind |-> "ground_track",
     scatters |-> [g \in 1..Len(groups) |-> GroundScatter(groups, g)],
     annotations |-> <<>>,
     title |-> obs_time]

\* no figure created yet
NoFig == [kind |-> None, scatters |-> <<>>, annotations |-> <<>>,
          title |-> NoTime]

IsGroundTrackInverted(a) == a.plot_type # "ground_track"

\* args.plot_type.lower() == "ground_track"
IsGroundTrack(a) == a.plot_type = "ground_track"

\* fig = utils.plot_ground_tracks(sat_groups)
render_ground_track ==
    /\ pc = "render"
    /\ IsGroundTrack(args)
    /\ fig' = PlotGroundTracks(sat_groups, obs_time_default.plot_ground_tracks)
    /\ pc' = "output"
    /\ trace' = Append(trace, "plot_ground_tracks")
    /\ UNCHANGED <<clock, obs_time_default, args, data, latlon, observer,
                   observer_call, tle_files, url_index, lines, sat_groups,
                   sat_groups_in, compute_log, prev_fig, output, raised_at>>

\* fig = utils.plot_polar_azel(sat_groups); fig.suptitle(... now() ...)
render_polar_azel ==
    /\ pc = "render"
    /\ ~IsGroundTrack(args)
    /\ fig' = [PlotPolarAzel(sat_groups) EXCEPT !.title = clock]
    /\ pc' = "output"
    /\ trace' = Append(trace, "plot_polar_azel")
    /\ UNCHANGED <<clock, obs_time_default, args, data, latlon, observer,
                   observer_call, tle_files, url_index, lines, sat_groups,
                   sat_groups_in, compute_log, prev_fig, output, raised_at>>

\* the charting library raises while the figure is drawn
render_raises ==
    /\ pc = "render"
    /\ pc' = "raised"
    /\ raised_at' = "render"
    /\ UNCHANGED <<clock, obs_time_default, args, data, latlon, observer,
                   observer_call, tle_files, url_index, lines, sat_groups,
                   sat_groups_in, compute_log, fig, prev_fig, output, trace>>

\* fig.savefig(args.figure, dpi=150) if args.figure else plt.show()
save_or_show ==
    /\ pc = "output"
    /\ output' = IF args.figure # None THEN "saved" ELSE "shown"
    /\ pc' = "teardown"
    /\ UNCHANGED <<clock, obs_time_default, args, data, latlon, observer,
                   observer_call, tle_files, url_index, lines, sat_groups,
                   sat_groups_in, compute_log, fig, prev_fig, raised_at, trace>>

\* satmap.script_teardown(start_time); return 0
script_teardown ==
    /\ pc = "teardown"
    /\ pc' = "done"
    /\ UNCHANGED <<clock, obs_time_default, args, data, latlon, observer,
                   observer_call, tle_files, url_index, lines, sat_groups,
                   sat_groups_in, compute_log, fig, prev_fig, output,
                   raised_at, trace>>

(* --------------------------- the run of main --------------------------- *)
Init ==
    /\ pc = "import"
    /\ clock = 0
    /\ obs_time_default = [get_observer |-> NoTime, plot_ground_tracks |-> NoTime]
    /\ args = [plot_type |-> None, figure |-> None]
    /\ data = [city |-> None, region |-> None, loc |-> LocAbsent]
    /\ latlon = <<>>
    /\ observer = NoObserver
    /\ observer_call = [at |-> NoTime, defaulted |-> FALSE]
    /\ tle_files = <<>>
    /\ url_index = 1
    /\ lines = <<>>
    /\ sat_groups = <<>>
    /\ sat_groups_in = <<>>
    /\ compute_log = <<>>
    /\ fig = NoFig
    /\ prev_fig = [kind |-> None, groups |-> <<>>]
    /\ output = None
    /\ raised_at = None
    /\ trace = <<>>

Next ==
    \/ Tick
    \/ import_utils
    \/ parse_args
    \/ get_location_data
    \/ get_location_data_raises
    \/ get_current_latlon
    \/ get_current_latlon_raises
    \/ get_observer
    \/ read_tle_file(MaxLinesMain)
    \/ read_tle_file_urlopen_raises
    \/ read_tle_file_readtle_raises(MaxLinesMain)
    \/ read_tle_files_return
    \/ compute_sat
    \/ compute_sat_raises
    \/ compute_sat_positions_return
    \/ render_ground_track
    \/ render_polar_azel
    \/ render_raises
    \/ save_or_show
    \/ script_teardown

Spec == Init /\ [][Next]_vars

(* ------------------- read_tle_files on any URL list ------------------- *)
SeqsUpTo(S, n) == UNION { [1..k -> S] : k \in 0..n }

UrlAlphabet == {"a", "B", ".", "/"}

GpsOpsTxt == <<"/","g","p","s","-","o","p","s",".","t","x","t">>

\* catalogs kept under the same file name on two hosts, and another catalog
CatalogUrls ==
    { TLE_FILES[1], TLE_FILES[2], <<"m">> \o GpsOpsTxt }

\* lists of distinct URLs
DistinctSeqs(S, n) ==
    { q \in SeqsUpTo(S, n) : \A i, j \in 1..Len(q) : q[i] = q[j] => i = j }

TleFileInputs ==
    DistinctSeqs(CatalogUrls, MaxUrls)
    \cup { <<u>> : u \in SeqsUpTo(UrlAlphabet, MaxUrlLen) }
    \cup { <<u \o GpsOpsTxt>> : u \in SeqsUpTo(UrlAlphabet, MaxPrefixLen) }
    \cup { <<TLE_FILES[i]>> : i \in 1..Len(TLE_FILES) }

InitLoader ==
    /\ pc = "read_tle_files"
    /\ clock = 0
    /\ obs_time_default = [get_observer |-> 0, plot_ground_tracks |-> 0]
    /\ args = [plot_type |-> None, figure |-> None]
    /\ data = [city |-> None, region |-> None, loc |-> LocAbsent]
    /\ latlon = <<>>
    /\ observer = NoObserver
    /\ observer_call = [at |-> NoTime, defaulted |-> FALSE]
    /\ tle_files \in TleFileInputs
    /\ url_index = 1
    /\ lines = <<>>
    /\ sat_groups = <<>>
    /\ sat_groups_in = <<>>
    /\ compute_log = <<>>
    /\ fig = NoFig
    /\ prev_fig = [kind |-> None, groups |-> <<>>]
    /\ output = None
    /\ raised_at = None
    /\ trace = <<>>

NextLoader ==
    \/ read_tle_file(MaxLines)
    \/ read_tle_file_urlopen_raises
    \/ read_tle_file_readtle_raises(MaxLines)
    \/ read_tle_files_return

SpecLoader == InitLoader /\ [][NextLoader]_vars

(* ----------------------- properties of the loader ---------------------- *)
\* the records stored under the key of the URL iterated last
LastGroup ==
    LET key == GroupKey(tle_files[url_index - 1])
    IN  sat_groups[CHOOSE g \in 1..Len(sat_groups) : sat_groups[g].key = key].sats

\* C1: after an iteration over a catalog body of n lines, the group holds
\* exactly n \div 3 records, the k-th built from the lines numbered 3k, 3k+1
\* and 3k+2 as (name, line 1, line 2); the 1 or 2 lines left over are dropped,
\* and readtle raises only for a line inside one of the complete triplets.
C1_TripletsInFileOrder ==
    /\ (pc = "read_tle_files" /\ url_index > 1) =>
          /\ Len(LastGroup) = Len(lines) \div 3
          /\ \A k \in 0..((Len(lines) \div 3) - 1) :
                /\ LastGroup[k + 1].name = lines[3 * k + 1]
                /\ LastGroup[k + 1].line1 = lines[3 * k + 2]
                /\ LastGroup[k + 1].line2 = lines[3 * k + 3]
                /\ LastGroup[k + 1].name.no = 3 * k
                /\ LastGroup[k + 1].line1.no = 3 * k + 1
                /\ LastGroup[k + 1].line2.no = 3 * k + 2
    /\ (pc = "raised" /\ raised_at = "readtle") =>
          \E i \in 1..(3 * (Len(lines) \div 3)) : ~lines[i].ok

\* a catalog of 7 lines whose last, left-over line is malformed gave 2 records
C1_Witness ==
    /\ pc = "read_tle_files"
    /\ url_index > 1
    /\ Len(lines) = 7
    /\ ~lines[7].ok
    /\ Len(LastGroup) = 2

\* C2: once read_tle_files has returned, the mapping has one entry per URL,
\* in fetch order, each holding the records of its own URL's catalog.
C2_OneEntryPerUrl ==
    pc = "compute_sat_positions" =>
       /\ Len(sat_groups) = Len(tle_files)
       /\ \A i \in 1..Len(sat_groups) :
             \A j \in 1..Len(sat_groups[i].sats) :
                sat_groups[i].sats[j].name.file = i

\* key is the last path component of url without its extension, upper-cased
IsStemUpper(url, key) ==
    \E i \in 0..Len(url) : \E j \in i..Len(url) :
       /\ i = 0 \/ url[i] = "/"
       /\ \A k \in (i+1)..Len(url) : url[k] # "/"
       /\ \/ /\ j < Len(url)
             /\ url[j + 1] = "."
             /\ \A k \in (j+2)..Len(url) : url[k] # "."
             /\ \E k \in (i+1)..j : url[k] # "."
          \/ /\ j = Len(url)
             /\ ~ \E d \in (i+2)..Len(url) :
                    url[d] = "." /\ \E k \in (i+1)..(d-1) : url[k] # "."
       /\ Len(key) = j - i
       /\ \A k \in 1..(j - i) :
             \/ \E m \in 1..Len(LowerCase) :
                   LowerCase[m] = url[i + k] /\ UpperCase[m] = key[k]
             \/ /\ \A m \in 1..Len(LowerCase) : LowerCase[m] # url[i + k]
                /\ key[k] = url[i + k]

EndsWith(s, t) ==
    Len(s) >= Len(t) /\ SubSeq(s, Len(s) - Len(t) + 1, Len(s)) = t

\* C9: the key stored for every URL iterated so far is the last path
\* component of that URL without its extension, upper-cased; for a URL that
\* ends in "/gps-ops.txt" it is GPS-OPS.
C9_GroupKey ==
    \A u \in 1..(url_index - 1) :
       /\ u <= Len(tle_files)
       /\ \E g \in 1..Len(sat_groups) :
             /\ IsStemUpper(tle_files[u], sat_groups[g].key)
             /\ EndsWith(tle_files[u], GpsOpsTxt) =>
                   sat_groups[g].key = <<"G","P","S","-","O","P","S">>
       /\ \A g \in 1..Len(sat_groups) :
             IsStemUpper(tle_files[u], sat_groups[g].key)
             \/ \E v \in 1..(url_index - 1) :
                   v # u /\ IsStemUpper(tle_files[v], sat_groups[g].key)

\* the first default catalog URL has been keyed
C9_Witness ==
    /\ url_index = 2
    /\ tle_files = <<TLE_FILES[1]>>
    /\ Len(sat_groups) = 1
    /\ sat_groups[1].key = <<"G","P","S","-","O","P","S">>

(* ---------------- renderers on any computed mapping ------------------- *)
\* key lists of at most MaxGroups of the first three default catalogs, in
\* the order of TLE_FILES
ColorKeyLists ==
    { [g \in 1..Len(q) |-> GroupKey(TLE_FILES[q[g]])] :
        q \in { r \in SeqsUpTo(1..3, MaxGroups) :
                    \A i, j \in 1..Len(r) : i < j => r[i] < r[j] } }

Below == CHOOSE p \in Positions : p.alt < 0
Above == CHOOSE p \in Positions : p.alt > 0

\* what the records of a group are computed to: no record, one below the
\* horizon, one above it, one above followed by one below
ColorGroupShapes == { <<>>, <<Below>>, <<Above>>, <<Above, Below>> }

SomeObserver == [lat |-> <<"4">>, lon |-> <<"7">>, date |-> 0]

\* groups of records computed once, one group for every shape
ComputedGroups ==
    { [j \in 1..Len(ps) |->
          Compute(Readtle(Response(0, 3 * Len(ps), 0)[3 * j - 2],
                          Response(0, 3 * Len(ps), 0)[3 * j - 1],
                          Response(0, 3 * Len(ps), 0)[3 * j]),
                  SomeObserver, ps[j])] : ps \in ColorGroupShapes }

\* mappings of at most MaxGroups groups with distinct keys
ComputedMappings ==
    { [g \in 1..Len(ks) |-> [key |-> ks[g], sats |-> ss[g]]] :
        <<ks, ss>> \in
           { q \in ColorKeyLists \X SeqsUpTo(ComputedGroups, MaxGroups) :
                 Len(q[1]) = Len(q[2]) } }

\* what a finished figure shows of each group: its key in the mapping it
\* was drawn from, the number of points plotted and the color used
FigSummary(f, groups) ==
    [kind |-> f.kind,
     groups |-> [g \in 1..Len(f.scatters) |->
                    [key |-> groups[g].key,
                     plotted |-> Len(f.scatters[g].x),
                     color |-> f.scatters[g].color]]]

\* a renderer is called again, on another computed mapping
render_again ==
    /\ pc = "output"
    /\ prev_fig' = FigSummary(fig, sat_groups)
    /\ sat_groups' \in ComputedMappings
    /\ \E t \in PlotTypes : args' = [plot_type |-> t, figure |-> None]
    /\ fig' = NoFig
    /\ trace' = <<>>
    /\ pc' = "render"
    /\ UNCHANGED <<clock, obs_time_default, data, latlon, observer,
                   observer_call, tle_files, url_index, lines, sat_groups_in,
                   compute_log, output, raised_at>>

InitColor ==
    /\ pc = "render"
    /\ clock = 0
    /\ obs_time_default = [get_observer |-> 0, plot_ground_tracks |-> 0]
    /\ \E t \in PlotTypes : args = [plot_type |-> t, figure |-> None]
    /\ data = [city |-> None, region |-> None, loc |-> LocAbsent]
    /\ latlon = <<>>
    /\ observer = SomeObserver
    /\ observer_call = [at |-> NoTime, defaulted |-> FALSE]
    /\ tle_files = <<>>
    /\ url_index = 1
    /\ lines = <<>>
    /\ sat_groups \in ComputedMappings
    /\ sat_groups_in = <<>>
    /\ compute_log = <<>>
    /\ fig = NoFig
    /\ prev_fig = [kind |-> None, groups |-> <<>>]
    /\ output = None
    /\ raised_at = None
    /\ trace = <<>>

NextColor ==
    \/ render_ground_track
    \/ render_polar_azel
    \/ render_again

SpecColor == InitColor /\ [][NextColor]_vars

\* C8: two figures drawn from mappings of the same number of groups give the
\* group at the same index the same color, whichever renderer drew each,
\* whatever the groups are called and however many points they show.
C8_ColorByIndexAndCount ==
    (prev_fig.kind # None /\ fig.kind # None
       /\ Len(prev_fig.groups) = Len(fig.scatters)) =>
          \A g \in 1..Len(fig.scatters) :
             fig.scatters[g].color = prev_fig.groups[g].color

\* a polar and a ground-track figure of two groups each, the first group
\* under different names and with a different number of points
C8_Witness ==
    /\ prev_fig.kind = "polar_azel"
    /\ fig.kind = "ground_track"
    /\ Len(prev_fig.groups) = 2
    /\ Len(fig.scatters) = 2
    /\ prev_fig.groups[1].key # sat_groups[1].key
    /\ prev_fig.groups[1].plotted # Len(fig.scatters[1].x)
    /\ prev_fig.groups[2].color # prev_fig.groups[1].color

C4_GroundTrackPlotsAll ==
    fig.kind = "ground_track" =>
       /\ Len(fig.scatters) = Len(sat_groups)
       /\ \A g \in 1..Len(sat_groups) :
             LET sats == sat_groups[g].sats
                 sc   == fig.scatters[g]
             IN  /\ Len(sc.x) = Len(sats)
                 /\ Len(sc.y) = Len(sats)
                 /\ \A k \in 1..Len(sats) :
                       <<sc.x[k], sc.y[k]>> =
                          Miller(Rad2Deg(sats[k].pos.sublong),
                                 Rad2Deg(sats[k].pos.sublat))

\* a ground-track figure showing a satellite below the horizon
C4_Witness ==
    /\ fig.kind = "ground_track"
    /\ \E g \in 1..Len(sat_groups) :
          /\ Len(sat_groups[g].sats) = 1
          /\ sat_groups[g].sats[1].pos.alt < 0
          /\ Len(fig.scatters[g].x) = 1

\* C5: an Observer built by a call of get_observer that omits the timestamp
\* carries the clock reading of that call.
C5_ObserverAtCallTime ==
    observer_call.defaulted => observer.date = observer_call.at

AllComputedOnce ==
    \A g \in 1..Len(sat_groups) : \A k \in 1..Len(sat_groups[g].sats) :
       sat_groups[g].sats[k].n_computed = 1

AllSucceeded ==
    /\ raised_at = None
    /\ Len(trace) = 5
    /\ url_index = Len(tle_files) + 1
    /\ AllComputedOnce
    /\ fig.kind # None

LexLess(a, b) == a[1] < b[1] \/ (a[1] = b[1] /\ a[2] < b[2])

IsRecord(groups, a) ==
    a[1] \in 1..Len(groups) /\ a[2] \in 1..Len(groups[a[1]].sats)

StageOrder ==
    <<"get_location_data", "get_observer", "read_tle_files",
      "compute_sat_positions">>

TraceInOrder ==
    /\ Len(trace) <= 5
    /\ \A i \in 1..Len(trace) :
          /\ i <= 4 => trace[i] = StageOrder[i]
          /\ i = 5 => trace[i] = IF args.plot_type = "ground_track"
                                 THEN "plot_ground_tracks"
                                 ELSE "plot_polar_azel"
    /\ fig.kind # None =>
          /\ Len(trace) = 5
          /\ fig.kind = args.plot_type
          /\ AllComputedOnce
          /\ Len(compute_log) = Len(VisitOrder(sat_groups, 1))
    /\ pc \in {"output", "teardown", "done"} => fig.kind # None

\* C10: the stages run in the order resolver, observer, loader, computer,
\* renderer; the one renderer that runs is the ground-track one exactly when
\* the plot type is ground_track, it runs after every record was computed,
\* and from the return of the computer on the mapping is not changed.
C10_StageOrder ==
    [][ /\ TraceInOrder'
        /\ pc \in {"render", "output", "teardown", "done"} =>
              sat_groups' = sat_groups ]_vars

\* a finished run that drew the ground-track figure
C10_Witness ==
    /\ pc = "done"
    /\ Len(trace) = 5
    /\ trace[5] = "plot_ground_tracks"
    /\ Len(compute_log) >= 1

====
